---- MODULE Spec2Model ----
(***************************************************************************)
(* The train -> evaluate -> gate -> persist pipeline (src/src/train.py,    *)
(* ModelTrainer) and the model-serving contract (src/src/predict.py,       *)
(* ModelPredictor and its three Flask routes) as one state machine.        *)
(*                                                                         *)
(* Conventions.  Floats in [0,1] are integer hundredths (0.85 is 85).      *)
(* Python strings that the code takes apart with str.replace are sequences *)
(* of tokens (".joblib", "min_" are single tokens), so that replace is     *)
(* computed, not assumed.  A Python call's outcome is a record whose       *)
(* field raised says whether it raised.                                    *)
(***************************************************************************)
EXTENDS Integers, Sequences, FiniteSets, TLC

VARIABLES
    configFile,   \* what is at config/model_config.yaml when a Trainer starts
    mode,         \* what runs the trainer: "none", "pipeline" (train.py as
                  \* a program), "direct" (a caller of the methods)
    pc,           \* position of that caller
    stages,       \* the calls the caller has made, in order, each with
                  \* whether it raised
    exitCode,     \* <<code>> once the trainer process has exited, <<>> before
    trainer,      \* the ModelTrainer object: config, model, metrics
    data,         \* the split returned by load_data (locals of the caller)
    gate,         \* outcome of the last check_quality_gates call
    fs,           \* file system: path -> content
    dirs,         \* existing directories
    saved,        \* history: per path, the last save_model call on it
    clock,        \* datetime.now()
    runs,         \* number of trainer processes started so far
    serving,      \* serving process: "down", "up"
    predictor,    \* the ModelPredictor singleton: model_path, model, model_info
    loadResult,   \* what load_model returned at construction
    atInit,       \* history: saved, as it was when the Predictor was built
    fsAtInit,     \* history: fs, as it was when the Predictor was built
    fsAtStart,    \* history: fs, as it was when run_training_pipeline began
    origin,       \* history: per file, the trainer run that last wrote it
                  \* (0: it was there before any run)
    held,         \* history: the origins of the files the Predictor's model
                  \* and model_info were read from, <<>> for none
    threads,      \* request threads of the serving process: where each is
                  \* in its view function, with its locals
    req,          \* the body of the request just served
    resp          \* the response to it

vars == <<configFile, mode, pc, stages, exitCode, trainer, data, gate, fs,
          dirs, saved, clock, runs, serving, predictor, loadResult, atInit,
          fsAtInit, fsAtStart, origin, held, threads, req, resp>>

trainerVars == <<configFile, mode, pc, stages, exitCode, trainer, data, gate,
                 runs>>
diskVars == <<fs, dirs, saved, fsAtStart, origin>>
serveVars == <<serving, predictor, loadResult, atInit, fsAtInit, held, threads>>

----------------------------------------------------------------------------
(* Bounds of the exploration *)

\* trainer processes started in one behaviour
MaxRuns == 1
\* evaluate_model calls in one behaviour (each stamps a fresh timestamp)
MaxClock == 1
\* longest feature sequence a request carries
MaxLen == 11
\* request threads the serving process runs at the same time
NThreads == 2

(* Program constants *)

\* predict.py: len(features) != 10
ExpectedFeatures == 10
\* train.py: data.data[:, :10]
TrainFeatures == 10

----------------------------------------------------------------------------
(* Python values *)

None == [py |-> "None"]
EmptyDict == [k \in {} |-> 0]

Ok(v) == [raised |-> FALSE, value |-> v]
Raise(e) == [raised |-> TRUE, exc |-> e]

(* Metric names, as token sequences: "f1_score" is "f1" + "_score" *)
Accuracy == <<"accuracy">>
Precision == <<"precision">>
Recall == <<"recall">>
F1Score == <<"f1", "_score">>
Timestamp == <<"timestamp">>
ScoreNames == {Accuracy, Precision, Recall, F1Score}

----------------------------------------------------------------------------
(* Configuration: ModelTrainer.load_config *)

\* the dictionary literal returned on FileNotFoundError; quality_gates keeps
\* the literal's key order, which is the order gates.items() yields
DefaultConfig ==
    [model |-> [n_estimators |-> 100, max_depth |-> 10, random_state |-> 42],
     training |-> [test_size |-> 20, random_state |-> 42],
     quality_gates |-> << <<<<"min_", "accuracy">>, 85>>,
                          <<<<"min_", "precision">>, 80>>,
                          <<<<"min_", "recall">>, 80>>,
                          <<<<"min_", "f1">>, 80>> >>]

\* documents a parsable configuration file may hold
YamlDocs ==
    { \* a shallower forest; the F1 gate spelled after the Evaluator's key
      [DefaultConfig EXCEPT !.model.max_depth = 5,
                            !.quality_gates =
                                << <<<<"min_", "accuracy">>, 85>>,
                                   <<<<"min_", "f1", "_score">>, 80>> >>],
      \* a file without the quality_gates namespace
      [model |-> DefaultConfig.model, training |-> DefaultConfig.training] }

ConfigFiles ==
    { [state |-> "absent"], [state |-> "unparsable"], [state |-> "empty"] }
    \cup { [state |-> "parsable", doc |-> d] : d \in YamlDocs }

\* open(config_path) raises FileNotFoundError only when the file is absent;
\* yaml.safe_load raises yaml.YAMLError on an unparsable document and returns
\* None for an empty one.  Only FileNotFoundError is caught.
load_config(file) ==
    CASE file.state = "absent" -> Ok(DefaultConfig)
      [] file.state = "unparsable" -> Raise("YAMLError")
      [] file.state = "empty" -> Ok(None)
      [] OTHER -> Ok(file.doc)

\* config[ns] raises TypeError on None and KeyError on a missing key
HasNamespace(config, ns) == ns \in DOMAIN config

----------------------------------------------------------------------------
(* Data provider, Trainer, Evaluator *)

NoData == [loaded |-> FALSE]

load_data(config) ==
    IF HasNamespace(config, "training")
    THEN Ok([loaded |-> TRUE, n_features |-> TrainFeatures])
    ELSE Raise(IF config = None THEN "TypeError" ELSE "KeyError")

\* RandomForestClassifier(**config["model"]).fit(X_train, y_train): seeded,
\* so the fitted model is a function of the hyperparameters and the data
train_model(config, X_train) ==
    IF HasNamespace(config, "model")
    THEN Ok([py |-> "RandomForestClassifier", params |-> config.model,
             n_features_in |-> X_train.n_features])
    ELSE Raise(IF config = None THEN "TypeError" ELSE "KeyError")

\* the scores the held-out split may give a model, in hundredths
ScoreValues == {70, 80, 85}
AllScores == [ScoreNames -> ScoreValues]

MetricsOf(scores, now) == scores @@ (Timestamp :> now)

\* self.model.predict raises AttributeError while self.model is None
evaluate_model(model, scores, now) ==
    IF model = None THEN Raise("AttributeError")
    ELSE Ok(MetricsOf(scores, now))

----------------------------------------------------------------------------
(* Quality gate: ModelTrainer.check_quality_gates *)

\* gate.replace("min_", "")
MetricName(gateKey) == SelectSeq(gateKey, LAMBDA t : t # "min_")

\* the for loop over gates.items(): a gate whose metric name is no key of
\* self.metrics is passed over; failed_gates collects, in order, the gates
\* whose metric is below the threshold
RECURSIVE GateLoop(_, _, _)
GateLoop(gates, metrics, acc) ==
    IF gates = <<>> THEN acc
    ELSE LET metric_name == MetricName(Head(gates)[1])
             threshold == Head(gates)[2]
             acc2 ==
                 IF metric_name \in DOMAIN metrics
                 THEN IF metrics[metric_name] < threshold
                      THEN [passed |-> FALSE,
                            failed_gates |-> Append(acc.failed_gates,
                                [metric |-> metric_name,
                                 value |-> metrics[metric_name],
                                 threshold |-> threshold])]
                      ELSE acc
                 ELSE acc
         IN GateLoop(Tail(gates), metrics, acc2)

NoGateCall == [called |-> FALSE]

\* raised: ValueError("Quality gates failed: " + ", ".join(failed_gates)),
\* the message being the entries of failed_gates
check_quality_gates(config, metrics) ==
    IF ~HasNamespace(config, "quality_gates")
    THEN [called |-> TRUE, raised |-> TRUE,
          exc |-> IF config = None THEN "TypeError" ELSE "KeyError",
          message |-> <<>>]
    ELSE LET r == GateLoop(config.quality_gates, metrics,
                           [passed |-> TRUE, failed_gates |-> <<>>])
         IN IF ~r.passed
            THEN [called |-> TRUE, raised |-> TRUE, exc |-> "ValueError",
                  message |-> r.failed_gates]
            ELSE [called |-> TRUE, raised |-> FALSE, exc |-> "",
                  message |-> <<>>]

----------------------------------------------------------------------------
(* Files: paths, joblib and json *)

DefaultPath == <<"models", "/", "model", ".joblib">>
Paths == { DefaultPath,
           <<"models", "/", "model", ".pkl">>,
           <<"model", ".joblib">> }

\* model_path.replace(".joblib", "_metrics.json")
MetricsPath(model_path) ==
    [i \in 1..Len(model_path) |->
        IF model_path[i] = ".joblib" THEN "_metrics.json" ELSE model_path[i]]

Files == Paths \cup { MetricsPath(p) : p \in Paths }

\* os.path.dirname
LastSlash(path) ==
    LET at == { i \in 1..Len(path) : path[i] = "/" }
    IN IF at = {} THEN 0 ELSE CHOOSE i \in at : \A j \in at : j <= i
dirname(path) ==
    IF LastSlash(path) = 0 THEN <<>> ELSE SubSeq(path, 1, LastSlash(path) - 1)

Missing == [fmt |-> "missing"]
Garbage == [fmt |-> "garbage"]
JoblibBlob(model) == [fmt |-> "joblib", model |-> model]
JsonDoc(doc) == [fmt |-> "json", doc |-> doc]

exists(disk, path) == disk[path] # Missing

\* joblib.load: only a joblib pickle unpickles
joblib_load(content) ==
    IF content.fmt = "joblib" THEN Ok(content.model) ELSE Raise("UnpicklingError")

\* json.load: only a JSON document parses
json_load(content) ==
    IF content.fmt = "json" THEN Ok(content.doc) ELSE Raise("JSONDecodeError")

\* open(path, "w"): the directory must exist ("" is the working directory)
CanCreate(directories, path) ==
    dirname(path) = <<>> \/ dirname(path) \in directories

\* I/O faults the environment may inject into one save_model call
Faults == {"none", "dump", "json"}

\* ModelTrainer.save_model.  The result carries the disk the call leaves
\* behind.  A write that fails half-way leaves a truncated file.
save_model(self, model_path, disk, directories, fault) ==
    IF dirname(model_path) = <<>>
    THEN \* os.makedirs("") raises FileNotFoundError
         [raised |-> TRUE, fs |-> disk, dirs |-> directories]
    ELSE LET dirs1 == directories \cup {dirname(model_path)}
             metrics_path == MetricsPath(model_path)
         IN IF fault = "dump"
            THEN [raised |-> TRUE, dirs |-> dirs1,
                  fs |-> [disk EXCEPT ![model_path] = Garbage]]
            ELSE LET fs1 == [disk EXCEPT ![model_path] = JoblibBlob(self.model)]
                 IN IF ~CanCreate(dirs1, metrics_path)
                    THEN [raised |-> TRUE, dirs |-> dirs1, fs |-> fs1]
                    ELSE IF fault = "json"
                    THEN [raised |-> TRUE, dirs |-> dirs1,
                          fs |-> [fs1 EXCEPT ![metrics_path] = Garbage]]
                    ELSE [raised |-> FALSE, dirs |-> dirs1,
                          fs |-> [fs1 EXCEPT ![metrics_path] = JsonDoc(self.metrics)]]

NeverSaved == [last_ok |-> FALSE, any_ok |-> FALSE, model |-> None,
               metrics |-> EmptyDict]

\* history of save_model calls on one path: whether the last call succeeded,
\* and what the most recent successful call wrote
Record(hist, self, r) ==
    IF r.raised THEN [hist EXCEPT !.last_ok = FALSE]
    ELSE [last_ok |-> TRUE, any_ok |-> TRUE, model |-> self.model,
          metrics |-> self.metrics]

\* save_model, first write: makedirs and joblib.dump of the model file
dump_model(self, model_path, disk, directories) ==
    IF dirname(model_path) = <<>>
    THEN [raised |-> TRUE, fs |-> disk, dirs |-> directories]
    ELSE [raised |-> FALSE, dirs |-> directories \cup {dirname(model_path)},
          fs |-> [disk EXCEPT ![model_path] = JoblibBlob(self.model)]]

\* save_model, second write: json.dump of the metrics file
dump_metrics(self, model_path, disk, directories) ==
    IF ~CanCreate(directories, MetricsPath(model_path))
    THEN [raised |-> TRUE, fs |-> disk, dirs |-> directories]
    ELSE [raised |-> FALSE, dirs |-> directories,
          fs |-> [disk EXCEPT
                     ![MetricsPath(model_path)] = JsonDoc(self.metrics)]]

\* the files one save_model call opens for writing
Wrote(model_path, directories, fault) ==
    IF dirname(model_path) = <<>> THEN {}
    ELSE IF \/ fault = "dump"
            \/ ~CanCreate(directories \cup {dirname(model_path)},
                          MetricsPath(model_path))
    THEN {model_path}
    ELSE {model_path, MetricsPath(model_path)}

\* the writer of each file after run number run has written the files in
\* written
Stamp(org, written, run) ==
    [f \in DOMAIN org |-> IF f \in written THEN run ELSE org[f]]

----------------------------------------------------------------------------
(* Predictor: ModelPredictor.__init__ and load_model *)

\* load_model on a predictor whose model is None and model_info is {}
load_model(self, disk) ==
    IF exists(disk, self.model_path)
    THEN LET m == joblib_load(disk[self.model_path])
             metrics_path == MetricsPath(self.model_path)
         IN IF m.raised
            THEN [self |-> self, ret |-> FALSE]
            ELSE LET self1 == [self EXCEPT !.model = m.value]
                 IN IF exists(disk, metrics_path)
                    THEN LET j == json_load(disk[metrics_path])
                         IN IF j.raised
                            THEN [self |-> self1, ret |-> FALSE]
                            ELSE [self |-> [self1 EXCEPT !.model_info = j.value],
                                  ret |-> TRUE]
                    ELSE [self |-> self1, ret |-> TRUE]
    ELSE [self |-> self, ret |-> FALSE]

ModelPredictor(model_path, disk) ==
    load_model([model_path |-> model_path, model |-> None,
                model_info |-> EmptyDict], disk)

\* load_model, first read: the model file.  done says the call is over.
load_model_file(self, disk) ==
    IF exists(disk, self.model_path)
    THEN LET m == joblib_load(disk[self.model_path])
         IN IF m.raised
            THEN [self |-> self, done |-> TRUE, ret |-> FALSE]
            ELSE [self |-> [self EXCEPT !.model = m.value], done |-> FALSE,
                  ret |-> FALSE]
    ELSE [self |-> self, done |-> TRUE, ret |-> FALSE]

\* load_model, second read: the metrics file, if there is one
load_metrics_file(self, disk) ==
    IF exists(disk, MetricsPath(self.model_path))
    THEN LET j == json_load(disk[MetricsPath(self.model_path)])
         IN IF j.raised
            THEN [self |-> self, ret |-> FALSE]
            ELSE [self |-> [self EXCEPT !.model_info = j.value], ret |-> TRUE]
    ELSE [self |-> self, ret |-> TRUE]

\* where what the Predictor holds came from
Held(self, org) ==
    [model |-> IF self.model = None THEN <<>> ELSE <<org[self.model_path]>>,
     info |-> IF self.model_info = EmptyDict THEN <<>>
              ELSE <<org[MetricsPath(self.model_path)]>>]

----------------------------------------------------------------------------
(* Requests: JSON bodies of POST /predict *)

Num(x) == [kind |-> "num", v |-> x]
Str(n) == [kind |-> "str", len |-> n]
List(items) == [kind |-> "list", items |-> items]
Repeat(n, item) == [i \in 1..n |-> item]

FeatureValues ==
    { Num(1) }
    \cup { Str(n) : n \in {3, ExpectedFeatures} }
    \cup { List(Repeat(n, Num(x))) : n \in 0..MaxLen, x \in {1, 2} }
    \cup { List(Repeat(n, List(Repeat(w, Num(1))))) :
              n \in {3, ExpectedFeatures}, w \in 0..2 }

Bodies ==
    { [json |-> "invalid"], [json |-> "null"], [json |-> "number"],
      [json |-> "string"], [json |-> "array"],
      [json |-> "object", has_features |-> FALSE] }
    \cup { [json |-> "object", has_features |-> TRUE, features |-> v] :
              v \in FeatureValues }

\* the bodies sent while the trainer runs as well: a well-formed request and
\* one without the features key
ProbeBodies ==
    { [json |-> "object", has_features |-> FALSE],
      [json |-> "object", has_features |-> TRUE,
       features |-> List(Repeat(ExpectedFeatures, Num(1)))] }

\* len(features): TypeError for a number
HasLen(v) == v.kind \in {"list", "str"}
PyLen(v) == IF v.kind = "list" THEN Len(v.items) ELSE v.len

\* np.array(features).reshape(1, -1): one row holding every scalar of the
\* nested value; a string is a single (0-dimensional) element
RECURSIVE Flatten(_)
Flatten(v) ==
    IF v.kind = "list"
    THEN IF v.items = <<>> THEN <<>>
         ELSE Flatten(Head(v.items)) \o Flatten(List(Tail(v.items)))
    ELSE <<v>>

RECURSIVE RowSum(_)
RowSum(row) ==
    IF row = <<>> THEN 0
    ELSE (IF Head(row).kind = "num" THEN Head(row).v ELSE 0) + RowSum(Tail(row))

\* the fitted classifier, an opaque capability: it rejects a row whose
\* column count differs from the one it was fitted on, or that is not numeric
Accepts(model, row) ==
    /\ Len(row) = model.n_features_in
    /\ \A i \in 1..Len(row) : row[i].kind = "num"
ModelPredict(model, row) == (model.params.max_depth + RowSum(row)) % 2
ModelPredictProba(model, row) ==
    IF ModelPredict(model, row) = 1 THEN <<20, 80>> ELSE <<70, 30>>

SeqMax(s) == CHOOSE x \in { s[i] : i \in 1..Len(s) } :
                 \A i \in 1..Len(s) : s[i] <= x

\* the prediction proper: reshape, predict, predict_proba.  calls lists the
\* column counts of the rows handed to the model's predict and predict_proba.
Infer(self, features) ==
    LET features_array == Flatten(features)
    IN IF features_array = <<>>
       THEN \* reshape(1, -1) of an array of size 0
            [raised |-> TRUE, calls |-> <<>>,
             error |-> [text |-> "cannot reshape"]]
       ELSE IF ~Accepts(self.model, features_array)
       THEN [raised |-> TRUE, calls |-> <<Len(features_array)>>,
             error |-> [text |-> "ValueError from model.predict"]]
       ELSE LET probabilities == ModelPredictProba(self.model, features_array)
            IN [raised |-> FALSE,
                calls |-> <<Len(features_array), Len(features_array)>>,
                prediction |-> ModelPredict(self.model, features_array),
                probabilities |-> probabilities,
                confidence |-> SeqMax(probabilities)]

\* a predictor that leaves the feature count to the model
PredictorPredictUnvalidated(self, features) ==
    IF self.model = None
    THEN [raised |-> TRUE, calls |-> <<>>,
          error |-> [text |-> "Model not loaded"]]
    ELSE Infer(self, features)

\* ModelPredictor.predict
PredictorPredict(self, features) ==
    IF self.model = None
    THEN [raised |-> TRUE, calls |-> <<>>,
          error |-> [text |-> "Model not loaded"]]
    ELSE IF ~HasLen(features)
    THEN [raised |-> TRUE, calls |-> <<>>, error |-> [text |-> "TypeError"]]
    ELSE IF PyLen(features) # ExpectedFeatures
    THEN [raised |-> TRUE, calls |-> <<>>,
          error |-> [text |-> "Expected {} features, got {}",
                     expected |-> ExpectedFeatures, got |-> PyLen(features)]]
    ELSE Infer(self, features)

----------------------------------------------------------------------------
(* API surface: the three routes *)

NoRequest == [json |-> "none"]
NoResponse == [route |-> "none"]

Threads == 1..NThreads
\* a thread waiting for a request
Idle == [at |-> "idle"]

\* a health route that answers 503 while no model is held
health_check_failing(p, now) ==
    [route |-> "/health",
     code |-> IF p.model # None THEN 200 ELSE 503,
     status |-> IF p.model # None THEN "healthy" ELSE "unhealthy",
     model_loaded |-> p.model # None,
     model_info |-> p.model_info,
     timestamp |-> now]

health_check(p, now) ==
    [route |-> "/health", code |-> 200,
     status |-> IF p.model # None THEN "healthy" ELSE "unhealthy",
     model_loaded |-> p.model # None,
     model_info |-> p.model_info,
     timestamp |-> now]

\* predictor.model_info.get("timestamp", "unknown")
ModelVersion(info) ==
    IF Timestamp \in DOMAIN info
    THEN [tag |-> "timestamp", at |-> info[Timestamp]]
    ELSE [tag |-> "unknown"]

BadRequest(msg, calls) ==
    [route |-> "/predict", code |-> 400, error |-> msg, calls |-> calls]

\* the /predict view: everything raised inside the try block is answered 400
predict(p, body, now) ==
    IF body.json = "invalid"
    THEN BadRequest([text |-> "BadRequest"], <<>>)
    ELSE IF body.json \in {"null", "number"}
    THEN \* "features" not in None, "features" not in 5
         BadRequest([text |-> "TypeError"], <<>>)
    ELSE IF body.json \in {"string", "array"} \/ ~body.has_features
    THEN BadRequest([text |-> "Missing features in request"], <<>>)
    ELSE LET result == PredictorPredict(p, body.features)
         IN IF result.raised
            THEN BadRequest(result.error, result.calls)
            ELSE [route |-> "/predict", code |-> 200, calls |-> result.calls,
                  prediction |-> result.prediction,
                  probabilities |-> result.probabilities,
                  confidence |-> result.confidence,
                  timestamp |-> now,
                  model_version |-> ModelVersion(p.model_info)]

\* the /predict view up to the membership test: the response of a request
\* that is answered there
predict_parse(body) ==
    IF body.json = "invalid"
    THEN [done |-> TRUE, resp |-> BadRequest([text |-> "BadRequest"], <<>>)]
    ELSE IF body.json \in {"null", "number"}
    THEN [done |-> TRUE, resp |-> BadRequest([text |-> "TypeError"], <<>>)]
    ELSE IF body.json \in {"string", "array"} \/ ~body.has_features
    THEN [done |-> TRUE,
          resp |-> BadRequest([text |-> "Missing features in request"], <<>>)]
    ELSE [done |-> FALSE]

\* a predictor that keeps a count of its calls next to the metrics
SelfAfterPredictCounting(self, features) ==
    [self EXCEPT !.model_info = (<<"requests">> :> 1) @@ self.model_info]

\* the Predictor object after ModelPredictor.predict: the method assigns no
\* attribute of self
SelfAfterPredict(self, features) == self

\* the /predict view after predictor.predict returned: the two stamps
predict_respond(result, info, now) ==
    [route |-> "/predict", code |-> 200, calls |-> result.calls,
     prediction |-> result.prediction,
     probabilities |-> result.probabilities,
     confidence |-> result.confidence,
     timestamp |-> now,
     model_version |-> ModelVersion(info)]

\* a route that reads the metrics file again on every request
model_info_reloading(p) ==
    [route |-> "/model/info", code |-> 200,
     model_path |-> p.model_path,
     model_loaded |-> p.model # None,
     model_metrics |->
         IF fs[MetricsPath(p.model_path)].fmt = "json"
         THEN fs[MetricsPath(p.model_path)].doc
         ELSE p.model_info]

model_info(p) ==
    [route |-> "/model/info", code |-> 200,
     model_path |-> p.model_path,
     model_loaded |-> p.model # None,
     model_metrics |-> p.model_info]

----------------------------------------------------------------------------
(* The training pipeline driver: ModelTrainer.run_training_pipeline *)

\* the calls inside the try block, in program order
PipelineOrder == <<"load_data", "train_model", "evaluate_model",
                   "check_quality_gates", "save_model">>

\* the calls of a caller that builds a trainer and persists its model to a
\* path of its choice (tests/test_model.py, test_model_persistence)
DirectOrder == <<"load_data", "train_model", "evaluate_model", "save_model">>

OrderOf(how) == IF how = "pipeline" THEN PipelineOrder ELSE DirectOrder

IndexOf(order, stage) == CHOOSE i \in 1..Len(order) : order[i] = stage

\* a driver that swallows a stage's exception and carries on
AfterStageSwallowing(order, stage, raised) ==
    IF IndexOf(order, stage) = Len(order) THEN "return"
    ELSE order[IndexOf(order, stage) + 1]

\* where control goes after a stage: the next call, the return statement
\* after the last one, or the except clause
AfterStage(order, stage, raised) ==
    IF raised THEN "except"
    ELSE IF IndexOf(order, stage) = Len(order) THEN "return"
    ELSE order[IndexOf(order, stage) + 1]

\* except Exception: sys.exit(1); a normal return ends __main__ with code 0.
\* An exception in a direct caller ends that caller with a failure as well.
ExitCodeAt(position) ==
    CASE position = "except" -> <<1>>
      [] position = "return" -> <<0>>
      [] OTHER -> <<>>

\* a method runs when its caller has reached it
CanCall(stage) == mode \in {"pipeline", "direct"} /\ pc = stage

\* the caller's bookkeeping after a stage
Advance(stage, raised) ==
    /\ stages' = Append(stages, [stage |-> stage, raised |-> raised])
    /\ pc' = AfterStage(OrderOf(mode), stage, raised)
    /\ exitCode' = ExitCodeAt(AfterStage(OrderOf(mode), stage, raised))
    /\ mode' = mode

NoTrainer == [config |-> None, model |-> None, metrics |-> EmptyDict]

\* the scores drawn when the whole system runs
EvalSamples ==
    { [n \in ScoreNames |-> 85],
      [n \in ScoreNames |-> IF n = Accuracy THEN 70 ELSE 85],
      [n \in ScoreNames |-> IF n = F1Score THEN 70 ELSE 85] }

----------------------------------------------------------------------------
(* Actions of the trainer process *)

\* python train.py (how == "pipeline") or a test building ModelTrainer()
TrainerStart(file, how) ==
    /\ mode = "none" \/ exitCode # <<>>
    /\ runs < MaxRuns
    /\ runs' = runs + 1
    /\ configFile' = file
    /\ LET c == load_config(file)
       IN IF c.raised
          THEN \* the exception leaves ModelTrainer() and ends the process
               /\ trainer' = NoTrainer
               /\ mode' = how
               /\ pc' = "crashed"
               /\ exitCode' = <<1>>
          ELSE /\ trainer' = [config |-> c.value, model |-> None,
                              metrics |-> EmptyDict]
               /\ mode' = how
               /\ pc' = OrderOf(how)[1]
               /\ exitCode' = <<>>
    /\ stages' = <<>>
    /\ data' = NoData
    /\ gate' = NoGateCall
    /\ fsAtStart' = fs
    /\ req' = NoRequest
    /\ resp' = NoResponse
    /\ UNCHANGED <<fs, dirs, saved, origin, clock, serveVars>>

LoadData ==
    /\ CanCall("load_data")
    /\ LET r == load_data(trainer.config)
       IN /\ data' = IF r.raised THEN data ELSE r.value
          /\ Advance("load_data", r.raised)
    /\ req' = NoRequest
    /\ resp' = NoResponse
    /\ UNCHANGED <<configFile, trainer, gate, runs, diskVars, clock, serveVars>>

TrainModel ==
    /\ CanCall("train_model")
    /\ data.loaded
    /\ LET r == train_model(trainer.config, data)
       IN /\ trainer' = IF r.raised THEN trainer
                        ELSE [trainer EXCEPT !.model = r.value]
          /\ Advance("train_model", r.raised)
    /\ req' = NoRequest
    /\ resp' = NoResponse
    /\ UNCHANGED <<configFile, data, gate, runs, diskVars, clock, serveVars>>

EvaluateModel(scores) ==
    /\ CanCall("evaluate_model")
    /\ data.loaded
    /\ clock < MaxClock
    /\ clock' = clock + 1
    /\ LET r == evaluate_model(trainer.model, scores, clock')
       IN /\ trainer' = IF r.raised THEN trainer
                        ELSE [trainer EXCEPT !.metrics = r.value]
          /\ Advance("evaluate_model", r.raised)
    /\ req' = NoRequest
    /\ resp' = NoResponse
    /\ UNCHANGED <<configFile, data, gate, runs, diskVars, serveVars>>

CheckQualityGates ==
    /\ CanCall("check_quality_gates")
    /\ gate' = check_quality_gates(trainer.config, trainer.metrics)
    /\ Advance("check_quality_gates", gate'.raised)
    /\ req' = NoRequest
    /\ resp' = NoResponse
    /\ UNCHANGED <<configFile, trainer, data, runs, diskVars, clock, serveVars>>

\* the driver calls save_model() with the default path; a direct caller
\* passes any path
SaveModel(model_path, fault) ==
    /\ CanCall("save_model")
    /\ mode = "pipeline" => model_path = DefaultPath
    /\ LET r == save_model(trainer, model_path, fs, dirs, fault)
       IN /\ fs' = r.fs
          /\ dirs' = r.dirs
          /\ origin' = Stamp(origin, Wrote(model_path, dirs, fault), runs)
          /\ saved' = [saved EXCEPT
                          ![model_path] = Record(saved[model_path], trainer, r)]
          /\ Advance("save_model", r.raised)
    /\ req' = NoRequest
    /\ resp' = NoResponse
    /\ UNCHANGED <<configFile, trainer, data, gate, runs, fsAtStart, clock,
                   serveVars>>

----------------------------------------------------------------------------
(* Actions of the serving process *)

\* predictor = ModelPredictor(): construction loads the model once
PredictorStart(model_path) ==
    /\ serving = "down"
    /\ LET r == ModelPredictor(model_path, fs)
       IN /\ predictor' = r.self
          /\ loadResult' = r.ret
          /\ held' = Held(r.self, origin)
    /\ serving' = "up"
    /\ threads' = threads
    /\ atInit' = saved
    /\ fsAtInit' = fs
    /\ req' = NoRequest
    /\ resp' = NoResponse
    /\ UNCHANGED <<trainerVars, diskVars, clock>>

\* the __main__ block of predict.py: exit(1) while no model is held, else
\* app.run
main(p) == IF p.model = None THEN "exited" ELSE "up"

\* python predict.py: the module body builds the predictor on the default
\* path, then the __main__ block runs
ProgramStart ==
    /\ serving = "down"
    /\ LET r == ModelPredictor(DefaultPath, fs)
       IN /\ predictor' = r.self
          /\ loadResult' = r.ret
          /\ serving' = main(r.self)
          /\ held' = Held(r.self, origin)
    /\ threads' = threads
    /\ atInit' = saved
    /\ fsAtInit' = fs
    /\ req' = NoRequest
    /\ resp' = NoResponse
    /\ UNCHANGED <<trainerVars, diskVars, clock>>

Health ==
    /\ serving = "up"
    /\ req' = NoRequest
    /\ resp' = health_check(predictor, clock)
    /\ UNCHANGED <<trainerVars, diskVars, clock, serveVars>>

Predict(body) ==
    /\ serving = "up"
    /\ req' = body
    /\ resp' = predict(predictor, body, clock)
    /\ UNCHANGED <<trainerVars, diskVars, clock, serveVars>>

ModelInfo ==
    /\ serving = "up"
    /\ req' = NoRequest
    /\ resp' = model_info(predictor)
    /\ UNCHANGED <<trainerVars, diskVars, clock, serveVars>>

----------------------------------------------------------------------------
(* save_model and load_model, one file access at a time *)

SaveModelDump ==
    /\ CanCall("save_model")
    /\ LET r == dump_model(trainer, DefaultPath, fs, dirs)
       IN /\ fs' = r.fs
          /\ dirs' = r.dirs
          /\ IF r.raised
             THEN /\ origin' = origin
                  /\ saved' = [saved EXCEPT ![DefaultPath] =
                                   Record(saved[DefaultPath], trainer, r)]
                  /\ Advance("save_model", TRUE)
             ELSE /\ origin' = Stamp(origin, {DefaultPath}, runs)
                  /\ saved' = saved
                  /\ pc' = "save_model.metrics"
                  /\ UNCHANGED <<mode, stages, exitCode>>
    /\ req' = NoRequest
    /\ resp' = NoResponse
    /\ UNCHANGED <<configFile, trainer, data, gate, runs, fsAtStart, clock,
                   serveVars>>

SaveModelMetrics ==
    /\ mode \in {"pipeline", "direct"}
    /\ pc = "save_model.metrics"
    /\ LET r == dump_metrics(trainer, DefaultPath, fs, dirs)
       IN /\ fs' = r.fs
          /\ dirs' = r.dirs
          /\ origin' = IF r.raised THEN origin
                       ELSE Stamp(origin, {MetricsPath(DefaultPath)}, runs)
          /\ saved' = [saved EXCEPT ![DefaultPath] =
                           Record(saved[DefaultPath], trainer, r)]
          /\ Advance("save_model", r.raised)
    /\ req' = NoRequest
    /\ resp' = NoResponse
    /\ UNCHANGED <<configFile, trainer, data, gate, runs, fsAtStart, clock,
                   serveVars>>

\* ModelPredictor(): __init__ up to the read of the model file
LoadBegin ==
    /\ serving = "down"
    /\ LET r == load_model_file([model_path |-> DefaultPath, model |-> None,
                                 model_info |-> EmptyDict], fs)
       IN /\ predictor' = r.self
          /\ loadResult' = r.ret
          /\ held' = Held(r.self, origin)
          /\ serving' = IF r.done THEN "up" ELSE "loading"
    /\ atInit' = saved
    /\ fsAtInit' = fs
    /\ threads' = threads
    /\ req' = NoRequest
    /\ resp' = NoResponse
    /\ UNCHANGED <<trainerVars, diskVars, clock>>

\* the rest of load_model: the read of the metrics file
LoadFinish ==
    /\ serving = "loading"
    /\ LET r == load_metrics_file(predictor, fs)
       IN /\ predictor' = r.self
          /\ loadResult' = r.ret
          /\ held' = [held EXCEPT !.info = Held(r.self, origin).info]
    /\ serving' = "up"
    /\ req' = NoRequest
    /\ resp' = NoResponse
    /\ UNCHANGED <<trainerVars, diskVars, clock, atInit, fsAtInit, threads>>

----------------------------------------------------------------------------
(* Requests served by threads that run at the same time, the /predict view *)
(* one access to the shared Predictor at a time                            *)

Routes == {"/health", "/predict", "/model/info"}

\* the bodies sent at the same time: those of ProbeBodies, a second
\* well-formed one and one of the wrong length
ConcBodies ==
    ProbeBodies
    \cup { [json |-> "object", has_features |-> TRUE,
            features |-> List(Repeat(n, Num(2)))] : n \in {3, ExpectedFeatures} }

Done(route, body, response) ==
    [at |-> "done", route |-> route, body |-> body, resp |-> response]

\* a request reaches a free thread
Receive(t, route, body) ==
    /\ serving = "up"
    /\ threads[t] = Idle
    /\ route = "/predict" <=> body # NoRequest
    /\ threads' = [threads EXCEPT
                      ![t] = [at |-> "received", route |-> route, body |-> body]]
    /\ UNCHANGED <<trainerVars, diskVars, clock, serving, predictor,
                   loadResult, atInit, fsAtInit, held, req, resp>>

HealthStep(t) ==
    /\ threads[t].at = "received"
    /\ threads[t].route = "/health"
    /\ threads' = [threads EXCEPT
                      ![t] = Done("/health", NoRequest,
                                  health_check(predictor, clock))]
    /\ UNCHANGED <<trainerVars, diskVars, clock, serving, predictor,
                   loadResult, atInit, fsAtInit, held, req, resp>>

ModelInfoStep(t) ==
    /\ threads[t].at = "received"
    /\ threads[t].route = "/model/info"
    /\ threads' = [threads EXCEPT
                      ![t] = Done("/model/info", NoRequest,
                                  model_info(predictor))]
    /\ UNCHANGED <<trainerVars, diskVars, clock, serving, predictor,
                   loadResult, atInit, fsAtInit, held, req, resp>>

\* request.get_json() and the test for the features key
PredictParse(t) ==
    /\ threads[t].at = "received"
    /\ threads[t].route = "/predict"
    /\ LET r == predict_parse(threads[t].body)
       IN threads' = [threads EXCEPT
                         ![t] = IF r.done
                                THEN Done("/predict", threads[t].body, r.resp)
                                ELSE [@ EXCEPT !.at = "parsed"]]
    /\ UNCHANGED <<trainerVars, diskVars, clock, serving, predictor,
                   loadResult, atInit, fsAtInit, held, req, resp>>

\* result = predictor.predict(features)
PredictCall(t) ==
    /\ threads[t].at = "parsed"
    /\ LET features == threads[t].body.features
           result == PredictorPredict(predictor, features)
       IN /\ predictor' = SelfAfterPredict(predictor, features)
          /\ threads' = [threads EXCEPT
                            ![t] = IF result.raised
                                   THEN Done("/predict", threads[t].body,
                                             BadRequest(result.error,
                                                        result.calls))
                                   ELSE [at |-> "called", route |-> "/predict",
                                         body |-> threads[t].body,
                                         result |-> result]]
    /\ UNCHANGED <<trainerVars, diskVars, clock, serving, loadResult, atInit,
                   fsAtInit, held, req, resp>>

\* the timestamp and model_version stamps, and the return
PredictRespond(t) ==
    /\ threads[t].at = "called"
    /\ threads' = [threads EXCEPT
                      ![t] = Done("/predict", threads[t].body,
                                  predict_respond(threads[t].result,
                                                  predictor.model_info, clock))]
    /\ UNCHANGED <<trainerVars, diskVars, clock, serving, predictor,
                   loadResult, atInit, fsAtInit, held, req, resp>>

\* the response is sent and the thread is free again
Finish(t) ==
    /\ threads[t].at = "done"
    /\ threads' = [threads EXCEPT ![t] = Idle]
    /\ UNCHANGED <<trainerVars, diskVars, clock, serving, predictor,
                   loadResult, atInit, fsAtInit, held, req, resp>>

----------------------------------------------------------------------------
(* The whole system *)

\* a model and metrics left by an earlier release
OldModel == train_model(DefaultConfig, [n_features |-> TrainFeatures]).value
OldMetrics == MetricsOf([n \in ScoreNames |-> 85], 0)

InitialDisks ==
    { [f \in Files |->
          IF f = DefaultPath THEN m
          ELSE IF f = MetricsPath(DefaultPath) THEN j
          ELSE Missing] :
      m \in {Missing, Garbage, JoblibBlob(OldModel)},
      j \in {Missing, Garbage, JsonDoc(OldMetrics)} }

Init ==
    /\ configFile = [state |-> "absent"]
    /\ mode = "none"
    /\ pc = "idle"
    /\ stages = <<>>
    /\ exitCode = <<>>
    /\ trainer = NoTrainer
    /\ data = NoData
    /\ gate = NoGateCall
    /\ fs \in InitialDisks
    /\ dirs = IF \A f \in Files : fs[f] = Missing THEN {}
              ELSE {dirname(DefaultPath)}
    /\ saved = [p \in Paths |-> NeverSaved]
    /\ clock = 0
    /\ runs = 0
    /\ serving = "down"
    /\ predictor = [model_path |-> DefaultPath, model |-> None,
                    model_info |-> EmptyDict]
    /\ loadResult = FALSE
    /\ atInit = saved
    /\ fsAtInit = fs
    /\ fsAtStart = fs
    /\ origin = [f \in Files |-> 0]
    /\ held = [model |-> <<>>, info |-> <<>>]
    /\ threads = [t \in Threads |-> Idle]
    /\ req = NoRequest
    /\ resp = NoResponse

Next ==
    \/ \E file \in ConfigFiles, how \in {"direct", "pipeline"} :
           TrainerStart(file, how)
    \/ LoadData
    \/ TrainModel
    \/ \E scores \in EvalSamples : EvaluateModel(scores)
    \/ CheckQualityGates
    \/ \E model_path \in Paths, fault \in Faults : SaveModel(model_path, fault)
    \/ \E model_path \in Paths : PredictorStart(model_path)
    \/ Health
    \/ \E body \in ProbeBodies : Predict(body)
    \/ ModelInfo

Spec == Init /\ [][Next]_vars

(* The serving process alone, on whatever the disk holds, with every body *)

NextServe ==
    \/ \E model_path \in Paths : PredictorStart(model_path)
    \/ Health
    \/ \E body \in Bodies : Predict(body)
    \/ ModelInfo

SpecServe == Init /\ [][NextServe]_vars

(* The serving process, started by an importing host (a WSGI server, the   *)
(* test client) or as a program                                            *)

NextProgram ==
    \/ \E model_path \in Paths : PredictorStart(model_path)
    \/ ProgramStart
    \/ Health
    \/ \E body \in Bodies : Predict(body)
    \/ ModelInfo

SpecProgram == Init /\ [][NextProgram]_vars

(* The serving process under concurrent requests *)

NextConc ==
    \/ \E model_path \in Paths : PredictorStart(model_path)
    \/ \E t \in Threads, route \in Routes, body \in ConcBodies \cup {NoRequest} :
           Receive(t, route, body)
    \/ \E t \in Threads : HealthStep(t)
    \/ \E t \in Threads : ModelInfoStep(t)
    \/ \E t \in Threads : PredictParse(t)
    \/ \E t \in Threads : PredictCall(t)
    \/ \E t \in Threads : PredictRespond(t)
    \/ \E t \in Threads : Finish(t)

SpecConc == Init /\ [][NextConc]_vars

(* python train.py next to a starting serving process, both on the default *)
(* path, each file access a step of its own                                *)

NextRace ==
    \/ \E file \in ConfigFiles : TrainerStart(file, "pipeline")
    \/ LoadData
    \/ TrainModel
    \/ \E scores \in EvalSamples : EvaluateModel(scores)
    \/ CheckQualityGates
    \/ SaveModelDump
    \/ SaveModelMetrics
    \/ LoadBegin
    \/ LoadFinish
    \/ Health
    \/ \E body \in ProbeBodies : Predict(body)
    \/ ModelInfo

SpecRace == Init /\ [][NextRace]_vars

(* The quality gate alone: run_training_pipeline just after evaluate_model, *)
(* for every configuration that gets that far and every score vector       *)

GateConfigFiles ==
    { f \in ConfigFiles :
        /\ ~load_config(f).raised
        /\ ~load_data(load_config(f).value).raised
        /\ ~train_model(load_config(f).value, load_data(load_config(f).value).value).raised }

InitGates ==
    /\ configFile \in GateConfigFiles
    /\ mode = "pipeline"
    /\ pc = "check_quality_gates"
    /\ stages = [i \in 1..3 |-> [stage |-> PipelineOrder[i], raised |-> FALSE]]
    /\ exitCode = <<>>
    /\ data = load_data(load_config(configFile).value).value
    /\ \E scores \in AllScores :
          trainer = [config |-> load_config(configFile).value,
                     model |-> train_model(load_config(configFile).value, data).value,
                     metrics |-> MetricsOf(scores, 1)]
    /\ gate = NoGateCall
    /\ fs = [f \in Files |-> Missing]
    /\ dirs = {}
    /\ saved = [p \in Paths |-> NeverSaved]
    /\ clock = 1
    /\ runs = 1
    /\ serving = "down"
    /\ predictor = [model_path |-> DefaultPath, model |-> None,
                    model_info |-> EmptyDict]
    /\ loadResult = FALSE
    /\ atInit = saved
    /\ fsAtInit = fs
    /\ fsAtStart = fs
    /\ origin = [f \in Files |-> 0]
    /\ held = [model |-> <<>>, info |-> <<>>]
    /\ threads = [t \in Threads |-> Idle]
    /\ req = NoRequest
    /\ resp = NoResponse

NextGates == CheckQualityGates

SpecGates == InitGates /\ [][NextGates]_vars

----------------------------------------------------------------------------
(* Claims *)

\* the gates of the trainer's configuration, as a sequence of <<key, threshold>>
Gates == trainer.config.quality_gates

\* the Evaluator's metric a gate key min_<metric> is about: the F1 gate is
\* about the metric the Evaluator stores as f1_score
GateMetric(key) ==
    IF MetricName(key) = <<"f1">> THEN F1Score ELSE MetricName(key)

\* the gates whose metric the Evaluator put below the threshold
Violated ==
    { i \in 1..Len(Gates) :
        /\ GateMetric(Gates[i][1]) \in DOMAIN trainer.metrics
        /\ trainer.metrics[GateMetric(Gates[i][1])] < Gates[i][2] }

GatesChecked ==
    /\ gate.called
    /\ HasNamespace(trainer.config, "quality_gates")
    /\ DOMAIN trainer.metrics # {}

\* C1: check_quality_gates raises exactly when some configured gate's metric,
\* as the Evaluator reports it, is below the gate's threshold; it passes only
\* when every configured gate is met, none being left unevaluated.
C1_EveryGateEvaluated ==
    GatesChecked => (gate.raised <=> Violated # {})

\* C10: when gates are violated, the single error names every violated metric
\* with its value and threshold, and no metric that met its threshold.
C10_ErrorNamesEveryViolation ==
    (GatesChecked /\ Violated # {}) =>
        /\ gate.raised
        /\ gate.exc = "ValueError"
        /\ { [metric |-> MetricName(Gates[i][1]),
              value |-> trainer.metrics[GateMetric(Gates[i][1])],
              threshold |-> Gates[i][2]] : i \in Violated }
           = { gate.message[k] : k \in 1..Len(gate.message) }

\* C2: run_training_pipeline runs its five stages in program order and is
\* fail-fast: a stage that raised is the last one run and the process exits
\* with code 1; after a failed gate save_model has not run and the files are
\* as the run found them; exit code 0 comes exactly after five stages that
\* all completed.
C2_PipelineFailFast ==
    mode = "pipeline" =>
        /\ Len(stages) <= Len(PipelineOrder)
        /\ \A i \in 1..Len(stages) : stages[i].stage = PipelineOrder[i]
        /\ \A i \in 1..Len(stages) :
              stages[i].raised => i = Len(stages) /\ exitCode = <<1>>
        /\ (gate.called /\ gate.raised) =>
              /\ exitCode = <<1>>
              /\ \A i \in 1..Len(stages) : stages[i].stage # "save_model"
              /\ fs = fsAtStart
        /\ exitCode = <<0>> <=>
              /\ Len(stages) = Len(PipelineOrder)
              /\ \A i \in 1..Len(stages) : ~stages[i].raised

\* a run whose gate failed after three completed stages
C2_Witness ==
    /\ mode = "pipeline"
    /\ gate.called /\ gate.raised
    /\ Len(stages) = 4
    /\ exitCode = <<1>>

\* a request that is well formed for a ten-feature model
WellFormed(body) ==
    /\ body.json = "object"
    /\ body.has_features
    /\ body.features.kind = "list"
    /\ Len(body.features.items) = ExpectedFeatures
    /\ \A i \in 1..Len(body.features.items) : body.features.items[i].kind = "num"

\* C3: with no model held, POST /predict answers 503, a status code different
\* from the 400 of malformed input.
C3_NoModelIs503 ==
    (resp.route = "/predict" /\ predictor.model = None /\ WellFormed(req))
        => resp.code = 503

LacksFeatures(body) ==
    \/ body.json \in {"null", "number", "string", "array"}
    \/ body.json = "object" /\ ~body.has_features

WrongLength(body) ==
    /\ body.json = "object"
    /\ body.has_features
    /\ HasLen(body.features)
    /\ PyLen(body.features) # ExpectedFeatures

\* C4: a body without the features key, or with a features sequence whose
\* length is not 10, is answered 400 with an error message and without any
\* call of the model, whether or not a model is loaded; with a model loaded
\* the wrong-length message names 10 and the actual count.
C4_MalformedIs400 ==
    (resp.route = "/predict" /\ (LacksFeatures(req) \/ WrongLength(req))) =>
        /\ resp.code = 400
        /\ "text" \in DOMAIN resp.error
        /\ resp.calls = <<>>
        /\ (WrongLength(req) /\ predictor.model # None) =>
              /\ "expected" \in DOMAIN resp.error
              /\ resp.error.expected = 10
              /\ resp.error.got = PyLen(req.features)

\* three features sent to a predictor that holds a model
C4_Witness ==
    /\ resp.route = "/predict"
    /\ predictor.model # None
    /\ WrongLength(req)
    /\ PyLen(req.features) = 3
    /\ resp.code = 400
    /\ resp.error.got = 3

\* C5: GET /health always answers 200; model_loaded is true exactly when the
\* Predictor holds a model and status is "healthy" exactly then; when no model
\* file existed at construction it reports not loaded and unhealthy.
C5_HealthAlways200 ==
    resp.route = "/health" =>
        /\ resp.code = 200
        /\ resp.model_loaded <=> predictor.model # None
        /\ resp.status = (IF resp.model_loaded THEN "healthy" ELSE "unhealthy")
        /\ ~exists(fsAtInit, predictor.model_path) =>
              ~resp.model_loaded /\ resp.status = "unhealthy"

\* the health of a predictor built where no model file was
C5_Witness ==
    /\ resp.route = "/health"
    /\ ~exists(fsAtInit, predictor.model_path)
    /\ resp.code = 200
    /\ resp.status = "unhealthy"

\* C6 as stated: at every point the metrics of GET /model/info are those the
\* most recent successful save_model call wrote on the Predictor's path
\* (read here for a Predictor that serves a model).
C6_InfoFollowsLatestSave ==
    (/\ resp.route = "/model/info"
     /\ resp.model_loaded
     /\ saved[predictor.model_path].any_ok)
        => resp.model_metrics = saved[predictor.model_path].metrics

\* what a Predictor built on this disk reads as its metrics
MetricsOnDisk(disk, model_path) ==
    IF disk[model_path].fmt = "joblib"
       /\ disk[MetricsPath(model_path)].fmt = "json"
    THEN disk[MetricsPath(model_path)].doc
    ELSE EmptyDict

\* C6 amended: the metrics of GET /model/info are those the Predictor read
\* when it was constructed: the content the metrics file had then (empty when
\* the model or the metrics file was missing or unreadable then), whatever
\* save_model wrote afterwards; when the last save_model call on a .joblib
\* path before construction succeeded, they are the metrics of that call.
C6_InfoIsAsOfConstruction ==
    resp.route = "/model/info" =>
        /\ resp.model_metrics = MetricsOnDisk(fsAtInit, predictor.model_path)
        /\ (/\ atInit[predictor.model_path].last_ok
            /\ MetricsPath(predictor.model_path) # predictor.model_path)
           => resp.model_metrics = atInit[predictor.model_path].metrics

\* /model/info answered with metrics older than the latest successful save
C6_Witness ==
    /\ resp.route = "/model/info"
    /\ saved[predictor.model_path].any_ok
    /\ resp.model_metrics # EmptyDict
    /\ resp.model_metrics # saved[predictor.model_path].metrics

\* C7: after save_model(path) succeeded, a Predictor constructed on that path
\* holds the model the Trainer saved, and the model file and the sibling
\* metrics file both exist, for every path.
C7_SaveLoadRoundTrip ==
    (serving = "up" /\ atInit[predictor.model_path].last_ok) =>
        /\ predictor.model = atInit[predictor.model_path].model
        /\ exists(fsAtInit, predictor.model_path)
        /\ exists(fsAtInit, MetricsPath(predictor.model_path))

\* C8: load_config never raises; an absent and an unparsable file both give
\* the built-in default configuration.
C8_ConfigNeverRaises ==
    (runs > 0 /\ configFile.state \in {"absent", "unparsable"}) =>
        /\ pc # "crashed"
        /\ trainer.config = DefaultConfig

\* C9: every row handed to the model's predict or predict_proba has exactly
\* the ten columns selected for training.
C9_RowHasTrainingWidth ==
    resp.route = "/predict" =>
        \A k \in 1..Len(resp.calls) : resp.calls[k] = TrainFeatures

\* C11: a failed model load at process start does not end the serving
\* process, which stays reachable for GET /health in a degraded state, also
\* when predict.py is started as the server program.
C11_FailedLoadKeepsServing ==
    (serving # "down" /\ predictor.model = None) => serving = "up"

\* what construction left in the Predictor
Constructed == ModelPredictor(predictor.model_path, fsAtInit).self

\* C12: however concurrent requests interleave, the Predictor's model,
\* model_info and model_path stay what construction made them, and the
\* response to a /predict request is the one its body gets from that
\* Predictor alone.
C12_HandlersLeavePredictor ==
    serving = "up" =>
        /\ predictor = Constructed
        /\ \A t \in Threads :
              (threads[t].at = "done" /\ threads[t].route = "/predict")
                  => threads[t].resp = predict(Constructed, threads[t].body, clock)

\* one /predict request answered 200 while another, with a different body,
\* is between its read of the model and its read of model_info
C12_Witness ==
    \E t, u \in Threads :
        /\ threads[t].at = "done"
        /\ threads[t].route = "/predict"
        /\ threads[t].resp.code = 200
        /\ threads[u].at = "called"
        /\ threads[u].body # threads[t].body

\* C13: however save_model and load_model on one path interleave, a
\* Predictor that holds a model and a non-empty model_info holds the metrics
\* written by the save_model call that wrote its model, so that the
\* model_version of /predict names the run of the serving model.
C13_MetricsFromSameSave ==
    (serving = "up" /\ predictor.model # None /\ predictor.model_info # EmptyDict)
        => held.model = held.info

\* C14: load_model returns True exactly when the Predictor holds a model
\* after the call, whatever the model file and the metrics file are.
C14_ReturnTellsModelHeld ==
    serving # "down" => (loadResult <=> predictor.model # None)

====
